---- MODULE Spec2Model ----
(***************************************************************************)
(* Model of assets/ddd_workshop.py: the Application command/event shell    *)
(* over the in-memory account and follow repositories, the event bus, the  *)
(* AccountBlocked policy and the read-model projector.                     *)
(*                                                                         *)
(* A call of Application.handle is a stack frame.  The handler runs when   *)
(* the frame is pushed; every subscriber invocation of the publish loop    *)
(* and the return are separate steps, so the states inside a call (after   *)
(* the handler's repository mutation, before its events are dispatched)    *)
(* are states of the model.                                                *)
(***************************************************************************)
EXTENDS Integers, Sequences, FiniteSets, TLC

\* ---------------------------------------------------------------- bounds
\* Number of accounts that can be registered; also the number of distinct
\* email values and of distinct username values a caller can submit.
MaxAccounts == 2

\* The account ids: registration mints them in turn, and a caller may name
\* any of them in a command before (or after) it is minted.
Ids == 1..MaxAccounts
Emails == 1..MaxAccounts
Usernames == 1..MaxAccounts

\* Number of subscriptions a client of the event bus makes besides those of
\* Application.__init__ (specification SpecBus only).
MaxClientSubs == 2

\* ---------------------------------------------------------------- values
None == [kind |-> "None"]

\* Events (frozen dataclasses): records with the dataclass' fields.
AccountRegistered(account_id, email, username) ==
    [kind |-> "AccountRegistered", account_id |-> account_id,
     email |-> email, username |-> username]

AccountAlreadyExists(email, username, reason) ==
    [kind |-> "AccountAlreadyExists", email |-> email,
     username |-> username, reason |-> reason]

AccountFollowed(follower_id, followee_id) ==
    [kind |-> "AccountFollowed", follower_id |-> follower_id,
     followee_id |-> followee_id]

FollowRejectedBlocked(follower_id, followee_id, reason) ==
    [kind |-> "FollowRejectedBlocked", follower_id |-> follower_id,
     followee_id |-> followee_id, reason |-> reason]

AccountBlocked(blocker_id, blocked_id) ==
    [kind |-> "AccountBlocked", blocker_id |-> blocker_id,
     blocked_id |-> blocked_id]

FollowerRemoved(follower_id, followee_id, reason) ==
    [kind |-> "FollowerRemoved", follower_id |-> follower_id,
     followee_id |-> followee_id, reason |-> reason]

\* Commands (frozen dataclasses).
RegisterAccount(email, username) ==
    [kind |-> "RegisterAccount", email |-> email, username |-> username]

FollowAccount(follower_id, followee_id) ==
    [kind |-> "FollowAccount", follower_id |-> follower_id,
     followee_id |-> followee_id]

BlockAccount(blocker_id, blocked_id) ==
    [kind |-> "BlockAccount", blocker_id |-> blocker_id,
     blocked_id |-> blocked_id]

RemoveFollower(follower_id, followee_id) ==
    [kind |-> "RemoveFollower", follower_id |-> follower_id,
     followee_id |-> followee_id]

\* The commands a caller can submit.
Commands ==
    {RegisterAccount(e, u) : e \in Emails, u \in Usernames}
    \cup {FollowAccount(f, g) : f \in Ids, g \in Ids}
    \cup {BlockAccount(b, a) : b \in Ids, a \in Ids}
    \cup {RemoveFollower(f, g) : f \in Ids, g \in Ids}

\* A command of a kind no handler is registered for: a bare Command().
UnhandledCommands == {[kind |-> "Command"]}

AllCommands == Commands \cup UnhandledCommands

\* The kinds of Event.
EventKinds ==
    {"AccountRegistered", "AccountAlreadyExists", "AccountFollowed",
     "FollowRejectedBlocked", "AccountBlocked", "FollowerRemoved"}

\* ---------------------------------------------------------------- state
VARIABLES
    by_id,           \* InMemoryAccountRepo.by_id: id -> Account (a dict)
    by_email,        \* InMemoryAccountRepo.by_email: email -> id
    by_username,     \* InMemoryAccountRepo.by_username: username -> id
    following,       \* InMemoryFollowRepo.following: follower -> set(followee)
    followers,       \* InMemoryFollowRepo.followers: followee -> set(follower)
    read_followers,  \* Application.read_followers
    read_following,  \* Application.read_following
    stack,           \* the active handle calls, outermost first
    published,       \* history: the bus publications of the current top-level call
    cur_cmd,         \* history: the command of the latest top-level call
    pre,             \* history: the state when the latest top-level call began
    ret,             \* history: what the latest completed top-level call returned
    returned,        \* history: the latest top-level call has returned
    repeat_of,       \* history: the preceding top-level call, when it was this same command
    raised,          \* history: the latest top-level call ended with an exception
    invoked,         \* history: the subscriber invocations of the current top-level call
    client_subs,     \* EventBus.subscribers: per event kind, the subscriptions made
                     \* after Application.__init__ by a client of the bus
    ever_blocked     \* history: the pairs {b, a} for which a top-level
                     \* handle(BlockAccount(b, a)) has returned AccountBlocked

repoVars == <<by_id, by_email, by_username, following, followers>>
readVars == <<read_followers, read_following>>
histVars == <<published, cur_cmd, pre, ret, returned, repeat_of, raised, invoked>>
vars == <<by_id, by_email, by_username, following, followers,
          read_followers, read_following, stack,
          published, cur_cmd, pre, ret, returned, repeat_of,
          raised, invoked, client_subs, ever_blocked>>

\* The repositories as one value, as the handlers see them.
Repos ==
    [by_id |-> by_id, by_email |-> by_email, by_username |-> by_username,
     following |-> following, followers |-> followers]

\* Repositories and read model, for the history variable pre.
Snapshot ==
    [by_id |-> by_id, by_email |-> by_email, by_username |-> by_username,
     following |-> following, followers |-> followers,
     read_followers |-> read_followers, read_following |-> read_following]

\* d[k] = v on a dict
Put(d, k, v) == [x \in (DOMAIN d) \cup {k} |-> IF x = k THEN v ELSE d[x]]

\* ---------------------------------------------------------------- aggregate
Account(id, email, username) ==
    [id |-> id, email |-> email, username |-> username, blocked |-> {}]

\* Account.block: the account after the call and the returned event.
Account_block(acc, other) ==
    IF other \in acc.blocked
    THEN [account |-> acc, event |-> AccountBlocked(acc.id, other)]
    ELSE [account |-> [acc EXCEPT !.blocked = @ \cup {other}],
          event |-> AccountBlocked(acc.id, other)]

\* AccountId.new(): a fresh id (uuid4), here the least id not yet minted.
HasFreshId(s) == Ids \ (DOMAIN s.by_id) # {}
AccountId_new(s) ==
    CHOOSE i \in Ids \ (DOMAIN s.by_id) :
        \A k \in Ids \ (DOMAIN s.by_id) : i <= k

\* ---------------------------------------------------------------- repositories
get(s, account_id) ==
    IF account_id \in DOMAIN s.by_id THEN s.by_id[account_id] ELSE None

get_by_email(s, email) ==
    IF email \in DOMAIN s.by_email
    THEN get(s, s.by_email[email])
    ELSE None

get_by_username(s, username) ==
    IF username \in DOMAIN s.by_username
    THEN get(s, s.by_username[username])
    ELSE None

\* Mutant of save: the username index is not written.
save_without_username_index(s, account) ==
    [s EXCEPT !.by_id = Put(@, account.id, account),
              !.by_email = Put(@, account.email, account.id)]

save(s, account) ==
    [s EXCEPT !.by_id = Put(@, account.id, account),
              !.by_email = Put(@, account.email, account.id),
              !.by_username = Put(@, account.username, account.id)]

\* following and followers are defaultdict(set): a missing key reads as set().
exists(s, follower, followee) == followee \in s.following[follower]

add(s, follower, followee) ==
    IF exists(s, follower, followee)
    THEN s
    ELSE [s EXCEPT !.following[follower] = @ \cup {followee},
                   !.followers[followee] = @ \cup {follower}]

remove(s, follower, followee) ==
    [s EXCEPT !.following[follower] = @ \ {followee},
              !.followers[followee] = @ \ {follower}]

\* ---------------------------------------------------------------- handlers
\* Mutant of handle_register_account: only the email is looked up.
handle_register_account_email_only(s, cmd) ==
    IF get_by_email(s, cmd.email) # None
    THEN [events |-> <<AccountAlreadyExists(cmd.email, cmd.username,
                                            "Duplicate email or username")>>,
          repos |-> s]
    ELSE LET acc == Account(AccountId_new(s), cmd.email, cmd.username)
             evt == AccountRegistered(acc.id, acc.email, acc.username)
         IN  [events |-> <<evt>>, repos |-> save(s, acc)]

\* Each handler yields the events it returns and the repositories it leaves.
handle_register_account(s, cmd) ==
    IF get_by_email(s, cmd.email) # None \/ get_by_username(s, cmd.username) # None
    THEN [events |-> <<AccountAlreadyExists(cmd.email, cmd.username,
                                            "Duplicate email or username")>>,
          repos |-> s]
    ELSE LET acc == Account(AccountId_new(s), cmd.email, cmd.username)
             evt == AccountRegistered(acc.id, acc.email, acc.username)
         IN  [events |-> <<evt>>, repos |-> save(s, acc)]

\* Mutant of handle_follow_account: an existing edge is not looked for.
handle_follow_account_no_exists_check(s, cmd) ==
    IF cmd.follower_id = cmd.followee_id
    THEN [events |-> <<FollowRejectedBlocked(cmd.follower_id, cmd.followee_id,
                                             "Cannot follow self")>>,
          repos |-> s]
    ELSE LET follower == get(s, cmd.follower_id)
             followee == get(s, cmd.followee_id)
         IN  IF follower = None \/ followee = None
             THEN [events |-> <<FollowRejectedBlocked(cmd.follower_id, cmd.followee_id,
                                                      "Unknown accounts")>>,
                   repos |-> s]
             ELSE IF cmd.followee_id \in follower.blocked
                     \/ cmd.follower_id \in followee.blocked
             THEN [events |-> <<FollowRejectedBlocked(cmd.follower_id, cmd.followee_id,
                                                      "Blocked relationship")>>,
                   repos |-> s]
             ELSE [events |-> <<AccountFollowed(cmd.follower_id, cmd.followee_id)>>,
                   repos |-> add(s, cmd.follower_id, cmd.followee_id)]

\* Mutant of handle_follow_account: follower = followee is not rejected.
handle_follow_account_no_self_check(s, cmd) ==
    LET follower == get(s, cmd.follower_id)
        followee == get(s, cmd.followee_id)
    IN  IF follower = None \/ followee = None
        THEN [events |-> <<FollowRejectedBlocked(cmd.follower_id, cmd.followee_id,
                                                 "Unknown accounts")>>,
              repos |-> s]
        ELSE IF cmd.followee_id \in follower.blocked
                \/ cmd.follower_id \in followee.blocked
        THEN [events |-> <<FollowRejectedBlocked(cmd.follower_id, cmd.followee_id,
                                                 "Blocked relationship")>>,
              repos |-> s]
        ELSE IF exists(s, cmd.follower_id, cmd.followee_id)
        THEN [events |-> <<>>, repos |-> s]
        ELSE [events |-> <<AccountFollowed(cmd.follower_id, cmd.followee_id)>>,
              repos |-> add(s, cmd.follower_id, cmd.followee_id)]

\* Mutant of handle_follow_account: the existing edge is looked for before the
\* blocked relationship.
handle_follow_account_exists_first(s, cmd) ==
    IF cmd.follower_id = cmd.followee_id
    THEN [events |-> <<FollowRejectedBlocked(cmd.follower_id, cmd.followee_id,
                                             "Cannot follow self")>>,
          repos |-> s]
    ELSE LET follower == get(s, cmd.follower_id)
             followee == get(s, cmd.followee_id)
         IN  IF follower = None \/ followee = None
             THEN [events |-> <<FollowRejectedBlocked(cmd.follower_id, cmd.followee_id,
                                                      "Unknown accounts")>>,
                   repos |-> s]
             ELSE IF exists(s, cmd.follower_id, cmd.followee_id)
             THEN [events |-> <<>>, repos |-> s]
             ELSE IF cmd.followee_id \in follower.blocked
                     \/ cmd.follower_id \in followee.blocked
             THEN [events |-> <<FollowRejectedBlocked(cmd.follower_id, cmd.followee_id,
                                                      "Blocked relationship")>>,
                   repos |-> s]
             ELSE [events |-> <<AccountFollowed(cmd.follower_id, cmd.followee_id)>>,
                   repos |-> add(s, cmd.follower_id, cmd.followee_id)]

\* Mutant of handle_follow_account: only the follower's blocked set is looked at.
handle_follow_account_one_way_block(s, cmd) ==
    IF cmd.follower_id = cmd.followee_id
    THEN [events |-> <<FollowRejectedBlocked(cmd.follower_id, cmd.followee_id,
                                             "Cannot follow self")>>,
          repos |-> s]
    ELSE LET follower == get(s, cmd.follower_id)
             followee == get(s, cmd.followee_id)
         IN  IF follower = None \/ followee = None
             THEN [events |-> <<FollowRejectedBlocked(cmd.follower_id, cmd.followee_id,
                                                      "Unknown accounts")>>,
                   repos |-> s]
             ELSE IF cmd.followee_id \in follower.blocked
             THEN [events |-> <<FollowRejectedBlocked(cmd.follower_id, cmd.followee_id,
                                                      "Blocked relationship")>>,
                   repos |-> s]
             ELSE IF exists(s, cmd.follower_id, cmd.followee_id)
             THEN [events |-> <<>>, repos |-> s]
             ELSE [events |-> <<AccountFollowed(cmd.follower_id, cmd.followee_id)>>,
                   repos |-> add(s, cmd.follower_id, cmd.followee_id)]

handle_follow_account(s, cmd) ==
    IF cmd.follower_id = cmd.followee_id
    THEN [events |-> <<FollowRejectedBlocked(cmd.follower_id, cmd.followee_id,
                                             "Cannot follow self")>>,
          repos |-> s]
    ELSE LET follower == get(s, cmd.follower_id)
             followee == get(s, cmd.followee_id)
         IN  IF follower = None \/ followee = None
             THEN [events |-> <<FollowRejectedBlocked(cmd.follower_id, cmd.followee_id,
                                                      "Unknown accounts")>>,
                   repos |-> s]
             ELSE IF cmd.followee_id \in follower.blocked
                     \/ cmd.follower_id \in followee.blocked
             THEN [events |-> <<FollowRejectedBlocked(cmd.follower_id, cmd.followee_id,
                                                      "Blocked relationship")>>,
                   repos |-> s]
             ELSE IF exists(s, cmd.follower_id, cmd.followee_id)
             THEN [events |-> <<>>, repos |-> s]
             ELSE [events |-> <<AccountFollowed(cmd.follower_id, cmd.followee_id)>>,
                   repos |-> add(s, cmd.follower_id, cmd.followee_id)]

\* Mutant of handle_block_account: blocking an already blocked account
\* reports nothing.
handle_block_account_silent_repeat(s, cmd) ==
    IF cmd.blocker_id = cmd.blocked_id
    THEN [events |-> <<>>, repos |-> s]
    ELSE LET blocker == get(s, cmd.blocker_id)
             blocked == get(s, cmd.blocked_id)
         IN  IF blocker = None \/ blocked = None
             THEN [events |-> <<>>, repos |-> s]
             ELSE IF cmd.blocked_id \in blocker.blocked
             THEN [events |-> <<>>, repos |-> s]
             ELSE LET r == Account_block(blocker, cmd.blocked_id)
                  IN  [events |-> <<r.event>>, repos |-> save(s, r.account)]

\* Mutant of handle_block_account: blocker == blocked is not looked for.
handle_block_account_no_self_check(s, cmd) ==
    LET blocker == get(s, cmd.blocker_id)
        blocked == get(s, cmd.blocked_id)
    IN  IF blocker = None \/ blocked = None
        THEN [events |-> <<>>, repos |-> s]
        ELSE LET r == Account_block(blocker, cmd.blocked_id)
             IN  [events |-> <<r.event>>, repos |-> save(s, r.account)]

handle_block_account(s, cmd) ==
    IF cmd.blocker_id = cmd.blocked_id
    THEN [events |-> <<>>, repos |-> s]
    ELSE LET blocker == get(s, cmd.blocker_id)
             blocked == get(s, cmd.blocked_id)
         IN  IF blocker = None \/ blocked = None
             THEN [events |-> <<>>, repos |-> s]
             ELSE LET r == Account_block(blocker, cmd.blocked_id)
                  IN  [events |-> <<r.event>>, repos |-> save(s, r.account)]

\* Mutant of handle_remove_follower: the edge is not looked for.
handle_remove_follower_unchecked(s, cmd) ==
    [events |-> <<FollowerRemoved(cmd.follower_id, cmd.followee_id, "Blocked")>>,
     repos |-> remove(s, cmd.follower_id, cmd.followee_id)]

handle_remove_follower(s, cmd) ==
    IF ~exists(s, cmd.follower_id, cmd.followee_id)
    THEN [events |-> <<>>, repos |-> s]
    ELSE [events |-> <<FollowerRemoved(cmd.follower_id, cmd.followee_id, "Blocked")>>,
          repos |-> remove(s, cmd.follower_id, cmd.followee_id)]

\* Mutant of handlers: RemoveFollower is not registered.
handlers_without_remove_follower == {"RegisterAccount", "FollowAccount", "BlockAccount"}

\* Application._register_handlers: the command kinds with a handler.
handlers == {"RegisterAccount", "FollowAccount", "BlockAccount", "RemoveFollower"}

\* handler(cmd) of Application.handle
RunHandler(s, cmd) ==
    CASE cmd.kind = "RegisterAccount" -> handle_register_account(s, cmd)
      [] cmd.kind = "FollowAccount"   -> handle_follow_account(s, cmd)
      [] cmd.kind = "BlockAccount"    -> handle_block_account(s, cmd)
      [] cmd.kind = "RemoveFollower"  -> handle_remove_follower(s, cmd)

\* ---------------------------------------------------------------- event bus
\* Mutant of subscribers: the policy is not subscribed.
subscribers_without_policy(kind) ==
    CASE kind = "AccountRegistered" -> <<"_project">>
      [] kind = "AccountFollowed"   -> <<"_project">>
      [] kind = "FollowerRemoved"   -> <<"_project">>
      [] OTHER                      -> <<>>

\* EventBus.subscribers after Application.__init__: _register_policies
\* subscribes the policy, then __init__ subscribes the projector.
subscribers(kind) ==
    CASE kind = "AccountBlocked"    -> <<"on_account_blocked">>
      [] kind = "AccountRegistered" -> <<"_project">>
      [] kind = "AccountFollowed"   -> <<"_project">>
      [] kind = "FollowerRemoved"   -> <<"_project">>
      [] OTHER                      -> <<>>

\* Mutant of on_account_blocked: follower and followee exchanged.
on_account_blocked_swapped(ev) ==
    RemoveFollower(ev.blocker_id, ev.blocked_id)

\* Mutant of on_account_blocked: the policy blocks back, a command whose event
\* the policy is subscribed to.
on_account_blocked_blocks_back(ev) ==
    BlockAccount(ev.blocked_id, ev.blocker_id)

\* on_account_blocked: the command the policy submits.
on_account_blocked(ev) ==
    RemoveFollower(ev.blocked_id, ev.blocker_id)

\* Mutant of project: FollowerRemoved is not projected.
project_ignores_removed(rm, ev) ==
    IF ev.kind = "AccountFollowed"
    THEN [read_following |-> [rm.read_following EXCEPT ![ev.follower_id] = @ \cup {ev.followee_id}],
          read_followers |-> [rm.read_followers EXCEPT ![ev.followee_id] = @ \cup {ev.follower_id}]]
    ELSE rm

\* Mutant of project: only read_following is maintained.
project_following_only(rm, ev) ==
    IF ev.kind = "AccountFollowed"
    THEN [rm EXCEPT !.read_following[ev.follower_id] = @ \cup {ev.followee_id}]
    ELSE IF ev.kind = "FollowerRemoved"
    THEN [rm EXCEPT !.read_following[ev.follower_id] = @ \ {ev.followee_id}]
    ELSE rm

\* Application._project: the read model after projecting ev.
project(rm, ev) ==
    IF ev.kind = "AccountRegistered" THEN rm
    ELSE IF ev.kind = "AccountFollowed"
    THEN [read_following |-> [rm.read_following EXCEPT ![ev.follower_id] = @ \cup {ev.followee_id}],
          read_followers |-> [rm.read_followers EXCEPT ![ev.followee_id] = @ \cup {ev.follower_id}]]
    ELSE IF ev.kind = "FollowerRemoved"
    THEN [read_following |-> [rm.read_following EXCEPT ![ev.follower_id] = @ \ {ev.followee_id}],
          read_followers |-> [rm.read_followers EXCEPT ![ev.followee_id] = @ \ {ev.follower_id}]]
    ELSE rm

ReadModel == [read_following |-> read_following, read_followers |-> read_followers]

\* Mutant of all_subscribers: the client's handlers are delivered events of
\* every kind, whatever kind they were subscribed to.
all_subscribers_any_kind(kind) ==
    subscribers(kind) \o
    [n \in 1..(client_subs["AccountRegistered"] + client_subs["AccountAlreadyExists"]
               + client_subs["AccountFollowed"] + client_subs["FollowRejectedBlocked"]
               + client_subs["AccountBlocked"] + client_subs["FollowerRemoved"])
        |-> "client_fn"]

\* EventBus.subscribers[kind]: the subscriptions of Application.__init__,
\* then those a client made with bus.subscribe(kind, client_fn).
all_subscribers(kind) ==
    subscribers(kind) \o [n \in 1..client_subs[kind] |-> "client_fn"]

\* ---------------------------------------------------------------- handle
\* A frame of Application.handle: the command, the events its handler
\* returned, the index i of the event being published and the index j of the
\* next subscriber of that event.
Frame(cmd, events) == [cmd |-> cmd, events |-> events, i |-> 1, j |-> 1]

Top == stack[Len(stack)]
TopEvent == Top.events[Top.i]
Publishing == stack # <<>> /\ Top.i <= Len(Top.events)

\* The frame once subscriber j of its current event has been invoked.
Advance(f) ==
    IF f.j + 1 > Len(all_subscribers(f.events[f.i].kind))
    THEN [f EXCEPT !.i = @ + 1, !.j = 1]
    ELSE [f EXCEPT !.j = @ + 1]

SetTop(f) == [stack EXCEPT ![Len(stack)] = f]

\* What a publication is recorded as: the event, the command whose handle
\* call published it and the depth of that call.
Publication(ev) == [event |-> ev, cmd |-> Top.cmd, depth |-> Len(stack)]

NotePublish ==
    published' = IF Top.j = 1 THEN Append(published, Publication(TopEvent))
                 ELSE published

\* What a subscriber invocation is recorded as: the subscriber, its position j
\* in the subscriber list, the event, the depth of the publishing handle call
\* and whether the subscriber raised.
Invocation(sub, failed) ==
    [sub |-> sub, j |-> Top.j, event |-> TopEvent, depth |-> Len(stack),
     failed |-> failed]

NoteInvoke(sub, failed) == invoked' = Append(invoked, Invocation(sub, failed))

\* The subscriber publish is about to call.
NextSubscriber(sub) ==
    /\ Publishing
    /\ Top.j <= Len(all_subscribers(TopEvent.kind))
    /\ all_subscribers(TopEvent.kind)[Top.j] = sub

\* ---------------------------------------------------------------- behaviour
NoCmd == [kind |-> "NoCmd"]
NoRepeat == [same |-> FALSE, ret |-> <<>>]

\* InMemoryAccountRepo(), InMemoryFollowRepo() and Application(accounts, follows).
EmptyState ==
    [by_id |-> <<>>, by_email |-> <<>>, by_username |-> <<>>,
     following |-> [x \in Ids |-> {}], followers |-> [x \in Ids |-> {}],
     read_followers |-> [x \in Ids |-> {}], read_following |-> [x \in Ids |-> {}]]

Init ==
    /\ by_id = EmptyState.by_id
    /\ by_email = EmptyState.by_email
    /\ by_username = EmptyState.by_username
    /\ following = EmptyState.following
    /\ followers = EmptyState.followers
    /\ read_followers = EmptyState.read_followers
    /\ read_following = EmptyState.read_following
    /\ stack = <<>>
    /\ published = <<>>
    /\ cur_cmd = NoCmd
    /\ pre = EmptyState
    /\ ret = <<>>
    /\ returned = FALSE
    /\ repeat_of = NoRepeat
    /\ raised = FALSE
    /\ invoked = <<>>
    /\ client_subs = [k \in EventKinds |-> 0]
    /\ ever_blocked = {}

\* The repositories become s.
SetRepos(s) ==
    /\ by_id' = s.by_id
    /\ by_email' = s.by_email
    /\ by_username' = s.by_username
    /\ following' = s.following
    /\ followers' = s.followers

\* A registration that would mint an id needs one left to mint.
CanRun(cmd) ==
    cmd.kind = "RegisterAccount" =>
        \/ HasFreshId(Repos)
        \/ get_by_email(Repos, cmd.email) # None
        \/ get_by_username(Repos, cmd.username) # None

\* Application.handle entered from outside: it finds the handler and runs it.
Enter(cmd) ==
    /\ stack = <<>>
    /\ cmd.kind \in handlers
    /\ CanRun(cmd)
    /\ LET r == RunHandler(Repos, cmd)
       IN  /\ SetRepos(r.repos)
           /\ stack' = <<Frame(cmd, r.events)>>
    /\ published' = <<>>
    /\ invoked' = <<>>
    /\ cur_cmd' = cmd
    /\ pre' = Snapshot
    /\ ret' = <<>>
    /\ returned' = FALSE
    /\ raised' = FALSE
    /\ UNCHANGED <<readVars, client_subs>>
    /\ UNCHANGED ever_blocked

\* A caller calls app.handle(cmd).
Handle(cmd) ==
    /\ ~returned
    /\ ~raised
    /\ Enter(cmd)
    /\ repeat_of' = NoRepeat

\* A caller calls app.handle with the command of the call that just returned.
HandleAgain ==
    /\ returned
    /\ Enter(cur_cmd)
    /\ repeat_of' = [same |-> TRUE, ret |-> ret]

\* A caller calls app.handle(cmd) and handlers.get(type(cmd)) finds nothing:
\* handle raises ValueError before anything else happens.
HandleUnhandled(cmd) ==
    /\ stack = <<>>
    /\ ~returned
    /\ ~raised
    /\ cmd.kind \notin handlers
    /\ cur_cmd' = cmd
    /\ pre' = Snapshot
    /\ raised' = TRUE
    /\ published' = <<>>
    /\ invoked' = <<>>
    /\ ret' = <<>>
    /\ returned' = FALSE
    /\ repeat_of' = NoRepeat
    /\ UNCHANGED <<repoVars, readVars, stack, client_subs>>
    /\ UNCHANGED ever_blocked

\* The caller goes on after a call: what it knew of that call (the history
\* variables) is dropped, the repositories and the read model stay.
CallerContinues ==
    /\ returned \/ raised
    /\ stack = <<>>
    /\ published' = <<>>
    /\ invoked' = <<>>
    /\ cur_cmd' = NoCmd
    /\ pre' = EmptyState
    /\ ret' = <<>>
    /\ returned' = FALSE
    /\ raised' = FALSE
    /\ repeat_of' = NoRepeat
    /\ UNCHANGED <<repoVars, readVars, stack, client_subs>>
    /\ UNCHANGED ever_blocked

\* bus.publish(ev) for an event kind nobody subscribed to.
PublishUnsubscribed ==
    /\ Publishing
    /\ all_subscribers(TopEvent.kind) = <<>>
    /\ published' = Append(published, Publication(TopEvent))
    /\ stack' = SetTop([Top EXCEPT !.i = @ + 1, !.j = 1])
    /\ UNCHANGED <<repoVars, readVars, cur_cmd, pre, ret, returned, repeat_of,
                   raised, invoked, client_subs>>
    /\ UNCHANGED ever_blocked

\* bus.publish(ev) invokes the projector.
InvokeProject ==
    /\ NextSubscriber("_project")
    /\ NotePublish
    /\ NoteInvoke("_project", FALSE)
    /\ LET rm == project(ReadModel, TopEvent)
       IN  /\ read_following' = rm.read_following
           /\ read_followers' = rm.read_followers
    /\ stack' = SetTop(Advance(Top))
    /\ UNCHANGED <<repoVars, cur_cmd, pre, ret, returned, repeat_of,
                   raised, client_subs>>
    /\ UNCHANGED ever_blocked

\* bus.publish(ev) invokes the policy, which calls handle re-entrantly: the
\* inner call finds its handler and runs it.
InvokePolicy ==
    /\ NextSubscriber("on_account_blocked")
    /\ NotePublish
    /\ NoteInvoke("on_account_blocked", FALSE)
    /\ LET cmd == on_account_blocked(TopEvent)
           r == RunHandler(Repos, cmd)
       IN  /\ cmd.kind \in handlers
           /\ SetRepos(r.repos)
           /\ stack' = Append(SetTop(Advance(Top)), Frame(cmd, r.events))
    /\ UNCHANGED <<readVars, cur_cmd, pre, ret, returned, repeat_of,
                   raised, client_subs>>
    /\ UNCHANGED ever_blocked

\* Mutant of ReturnValue: everything published during the call is returned.
ReturnValue_all_published(f) ==
    [k \in 1..Len(published) |-> published[k].event]

\* What handle returns: the list its handler returned.
ReturnValue(f) == f.events

\* handle returns, to the policy or to the caller.
Return ==
    /\ stack # <<>>
    /\ Top.i > Len(Top.events)
    /\ stack' = SubSeq(stack, 1, Len(stack) - 1)
    /\ IF Len(stack) = 1
       THEN ret' = ReturnValue(Top) /\ returned' = TRUE
       ELSE UNCHANGED <<ret, returned>>
    /\ ever_blocked' =
         IF /\ Len(stack) = 1
            /\ Top.cmd.kind = "BlockAccount"
            /\ ReturnValue(Top) =
                 <<AccountBlocked(Top.cmd.blocker_id, Top.cmd.blocked_id)>>
         THEN ever_blocked \cup {{Top.cmd.blocker_id, Top.cmd.blocked_id}}
         ELSE ever_blocked
    /\ UNCHANGED <<repoVars, readVars, published, cur_cmd, pre, repeat_of,
                   raised, invoked, client_subs>>

Next ==
    \/ \E cmd \in AllCommands : Handle(cmd)
    \/ \E cmd \in AllCommands : HandleUnhandled(cmd)
    \/ HandleAgain
    \/ CallerContinues
    \/ PublishUnsubscribed
    \/ InvokeProject
    \/ InvokePolicy
    \/ Return

Spec == Init /\ [][Next]_vars

\* ---------------------------------------------------------------- liveness
\* One step of a handle call in progress.  The program is single-threaded and
\* synchronous: a call in progress takes its next step.
CallStep ==
    \/ PublishUnsubscribed
    \/ InvokeProject
    \/ InvokePolicy
    \/ Return

SpecLive == Init /\ [][Next]_vars /\ WF_vars(CallStep)

\* ---------------------------------------------------------------- bus clients
\* The Application with further subscribers on its bus: a client calls
\* bus.subscribe(kind, client_fn).  client_fn touches neither the
\* repositories nor the read model; a call of it returns or raises.
TotalClientSubs ==
    client_subs["AccountRegistered"] + client_subs["AccountAlreadyExists"]
    + client_subs["AccountFollowed"] + client_subs["FollowRejectedBlocked"]
    + client_subs["AccountBlocked"] + client_subs["FollowerRemoved"]

\* EventBus.subscribe(kind, client_fn), between handle calls.
ClientSubscribe(kind) ==
    /\ stack = <<>>
    /\ ~returned
    /\ ~raised
    /\ TotalClientSubs < MaxClientSubs
    /\ client_subs' = [client_subs EXCEPT ![kind] = @ + 1]
    /\ UNCHANGED <<repoVars, readVars, stack, published, cur_cmd, pre, ret,
                   returned, repeat_of, raised, invoked>>
    /\ UNCHANGED ever_blocked

\* bus.publish(ev) invokes client_fn, which returns.
InvokeClient ==
    /\ NextSubscriber("client_fn")
    /\ NotePublish
    /\ NoteInvoke("client_fn", FALSE)
    /\ stack' = SetTop(Advance(Top))
    /\ UNCHANGED <<repoVars, readVars, cur_cmd, pre, ret, returned, repeat_of,
                   raised, client_subs>>
    /\ UNCHANGED ever_blocked

\* Mutant of Propagate: publish catches the exception and goes on with the
\* next subscriber.
Propagate_swallowed(stk) ==
    [stk EXCEPT ![Len(stk)] = Advance(@)]

\* The active calls after a subscriber raised: publish, handle and the policy
\* have no try/except, so the exception leaves every one of them.
Propagate(stk) == <<>>

\* Mutant of KeptOnFailure: a failed call restores the state it began with.
KeptOnFailure_rolled_back(s) ==
    [by_id |-> pre.by_id, by_email |-> pre.by_email, by_username |-> pre.by_username,
     following |-> pre.following, followers |-> pre.followers]

\* The repositories after an exception left handle: handle undoes nothing.
KeptOnFailure(s) == s

\* bus.publish(ev) invokes client_fn, which raises.
ClientFails ==
    /\ NextSubscriber("client_fn")
    /\ NotePublish
    /\ NoteInvoke("client_fn", TRUE)
    /\ stack' = Propagate(stack)
    /\ raised' = (Propagate(stack) = <<>>)
    /\ SetRepos(KeptOnFailure(Repos))
    /\ UNCHANGED <<readVars, cur_cmd, pre, ret, returned, repeat_of, client_subs>>
    /\ UNCHANGED ever_blocked

NextBus ==
    \/ \E kind \in EventKinds : ClientSubscribe(kind)
    \/ \E cmd \in AllCommands : Handle(cmd)
    \/ \E cmd \in AllCommands : HandleUnhandled(cmd)
    \/ CallerContinues
    \/ PublishUnsubscribed
    \/ InvokeProject
    \/ InvokePolicy
    \/ InvokeClient
    \/ ClientFails
    \/ Return

SpecBus == Init /\ [][NextBus]_vars

\* ======================================================================
\* Properties
\* ======================================================================
\* The blocked set of x in s (empty when x is not an account).
BlockedBy(s, x) == IF x \in DOMAIN s.by_id THEN s.by_id[x].blocked ELSE {}

Registered(s, x) == x \in DOMAIN s.by_id

\* The events of the publications made by the top-level call itself.
OwnPublished ==
    LET ix == {k \in 1..Len(published) : published[k].depth = 1}
    IN  [n \in 1..Cardinality(ix) |->
            published[CHOOSE k \in ix : Cardinality({m \in ix : m <= k}) = n].event]

FollowState == [following |-> following, followers |-> followers]
FollowStateOf(s) == [following |-> s.following, followers |-> s.followers]
ReadModelOf(s) == [read_following |-> s.read_following, read_followers |-> s.read_followers]

\* ---------------------------------------------------------------- C1
\* C1: whenever a top-level handle call has returned, no follow edge x -> y
\* exists while x has blocked y or y has blocked x.
C1_NoEdgeAcrossBlock ==
    returned =>
        \A x \in Ids, y \in Ids :
            exists(Repos, x, y) =>
                /\ y \notin BlockedBy(Repos, x)
                /\ x \notin BlockedBy(Repos, y)

\* ---------------------------------------------------------------- C2
BlockOfFollower ==
    /\ returned
    /\ cur_cmd.kind = "BlockAccount"
    /\ cur_cmd.blocker_id # cur_cmd.blocked_id
    /\ Registered(pre, cur_cmd.blocker_id)
    /\ Registered(pre, cur_cmd.blocked_id)
    /\ exists(pre, cur_cmd.blocked_id, cur_cmd.blocker_id)

\* C2: handle(BlockAccount(b, a)) while a follows b ends with exists(a, b)
\* false and with exactly one FollowerRemoved(a, b) published during the call,
\* by the handle call the AccountBlocked policy made (the caller's command is
\* BlockAccount, never RemoveFollower).
C2_BlockRemovesFollower ==
    BlockOfFollower =>
        LET b == cur_cmd.blocker_id
            a == cur_cmd.blocked_id
            removed == {k \in 1..Len(published) :
                            published[k].event.kind = "FollowerRemoved"}
        IN  /\ ~exists(Repos, a, b)
            /\ Cardinality(removed) = 1
            /\ \A k \in removed :
                 /\ published[k].event = FollowerRemoved(a, b, "Blocked")
                 /\ published[k].depth = 2
                 /\ published[k].cmd = on_account_blocked(AccountBlocked(b, a))
                 /\ k > 1
                 /\ published[k - 1].event = AccountBlocked(b, a)
                 /\ published[k - 1].depth = 1

C2_Witness == BlockOfFollower /\ Len(published) = 2

\* ---------------------------------------------------------------- C3
ReadModelConsistent(rm, fs) ==
    \A x \in Ids, y \in Ids :
        /\ (y \in rm.read_following[x]) <=> (y \in fs.following[x])
        /\ (x \in rm.read_followers[y]) <=> (y \in fs.following[x])

\* The events a handler has produced and the bus has not yet published.
Pending ==
    UNION {{stack[d].events[k] : k \in stack[d].i..Len(stack[d].events)} :
                d \in 1..Len(stack)}

PendingEdgeEvents ==
    {ev \in Pending : ev.kind \in {"AccountFollowed", "FollowerRemoved"}}

\* C3 (as claimed): the read model agrees with the Follow Repository in every
\* reachable state, the states inside a handle call included.
C3_ReadModelAlwaysConsistent == ReadModelConsistent(ReadModel, FollowState)

\* C3 (amended): the read model agrees with the Follow Repository in every
\* reachable state where no AccountFollowed or FollowerRemoved event awaits
\* publication; inside a handle call, between the handler's repository
\* mutation and the publication of its event, the read model lags the
\* repository by exactly that one event.
C3_ConsistentUpToPending ==
    /\ PendingEdgeEvents = {} => ReadModelConsistent(ReadModel, FollowState)
    /\ PendingEdgeEvents # {} =>
         /\ Cardinality(PendingEdgeEvents) = 1
         /\ ~ReadModelConsistent(ReadModel, FollowState)
         /\ \A ev \in PendingEdgeEvents :
              ReadModelConsistent(project(ReadModel, ev), FollowState)

\* Inside the cascade of a block: the edge is gone, its removal not yet projected.
C3_Witness ==
    /\ Len(stack) = 2
    /\ PendingEdgeEvents # {}
    /\ \E ev \in PendingEdgeEvents : ev.kind = "FollowerRemoved"

\* ---------------------------------------------------------------- C4
\* C4: no two persisted accounts share an email or a username, and for every
\* persisted account get(id), get_by_email(email) and get_by_username(username)
\* all return that account.
C4_UniqueAndIndexed ==
    /\ \A x \in DOMAIN by_id, y \in DOMAIN by_id :
         x # y => /\ by_id[x].email # by_id[y].email
                  /\ by_id[x].username # by_id[y].username
    /\ \A x \in DOMAIN by_id :
         /\ by_id[x].id = x
         /\ get(Repos, x) = by_id[x]
         /\ get_by_email(Repos, by_id[x].email) = by_id[x]
         /\ get_by_username(Repos, by_id[x].username) = by_id[x]

\* Every id is registered, one account has blocked another, and a call returned.
C4_Witness ==
    /\ returned
    /\ DOMAIN by_id = Ids
    /\ \E x \in Ids : by_id[x].blocked # {}

\* ---------------------------------------------------------------- C5
EmailTaken(s, email) == \E x \in DOMAIN s.by_id : s.by_id[x].email = email
UsernameTaken(s, username) == \E x \in DOMAIN s.by_id : s.by_id[x].username = username

DuplicateRegistration ==
    /\ returned
    /\ cur_cmd.kind = "RegisterAccount"
    /\ EmailTaken(pre, cur_cmd.email) \/ UsernameTaken(pre, cur_cmd.username)

\* C5: handle(RegisterAccount(email, username)) with the email or the username
\* already persisted returns exactly one event, AccountAlreadyExists, and
\* leaves the account repository as it was (so a second registration with the
\* same email and another username leaves one account).
C5_DuplicateRejected ==
    DuplicateRegistration =>
        /\ Len(ret) = 1
        /\ ret[1].kind = "AccountAlreadyExists"
        /\ ret[1].email = cur_cmd.email
        /\ ret[1].username = cur_cmd.username
        /\ by_id = pre.by_id
        /\ by_email = pre.by_email
        /\ by_username = pre.by_username
        /\ Cardinality(DOMAIN by_id) = Cardinality(DOMAIN pre.by_id)

\* The second registration repeats the email of the only account under
\* another username.
C5_Witness ==
    /\ DuplicateRegistration
    /\ Cardinality(DOMAIN pre.by_id) = 1
    /\ EmailTaken(pre, cur_cmd.email)
    /\ ~UsernameTaken(pre, cur_cmd.username)
    /\ Cardinality(DOMAIN by_id) = 1

\* ---------------------------------------------------------------- C6
FreshFollow ==
    /\ returned
    /\ cur_cmd.kind = "FollowAccount"
    /\ cur_cmd.follower_id # cur_cmd.followee_id
    /\ Registered(pre, cur_cmd.follower_id)
    /\ Registered(pre, cur_cmd.followee_id)
    /\ cur_cmd.followee_id \notin BlockedBy(pre, cur_cmd.follower_id)
    /\ cur_cmd.follower_id \notin BlockedBy(pre, cur_cmd.followee_id)
    /\ ~exists(pre, cur_cmd.follower_id, cur_cmd.followee_id)

RepeatedFollow ==
    /\ returned
    /\ cur_cmd.kind = "FollowAccount"
    /\ repeat_of.same
    /\ repeat_of.ret = <<AccountFollowed(cur_cmd.follower_id, cur_cmd.followee_id)>>

\* C6: for registered f # g, neither blocking the other, without the edge
\* f -> g: handle(FollowAccount(f, g)) returns exactly <<AccountFollowed(f, g)>>
\* and makes exists(f, g) true; the same call made again at once returns no
\* events, publishes nothing and leaves exists(f, g) true, the follow
\* repository and the read model unchanged.
C6_FollowIdempotent ==
    /\ FreshFollow =>
         /\ ret = <<AccountFollowed(cur_cmd.follower_id, cur_cmd.followee_id)>>
         /\ exists(Repos, cur_cmd.follower_id, cur_cmd.followee_id)
    /\ RepeatedFollow =>
         /\ ret = <<>>
         /\ published = <<>>
         /\ exists(Repos, cur_cmd.follower_id, cur_cmd.followee_id)
         /\ FollowState = FollowStateOf(pre)
         /\ ReadModel = ReadModelOf(pre)

C6_Witness == RepeatedFollow /\ exists(pre, cur_cmd.follower_id, cur_cmd.followee_id)

\* ---------------------------------------------------------------- C7
SelfFollow ==
    /\ returned
    /\ cur_cmd.kind = "FollowAccount"
    /\ cur_cmd.follower_id = cur_cmd.followee_id

\* C7: handle(FollowAccount(x, x)) returns exactly one FollowRejectedBlocked
\* event whether or not x is registered and adds no edge, and no self-loop
\* x -> x is ever in the Follow Repository.
C7_NoSelfFollow ==
    /\ \A x \in Ids : x \notin following[x] /\ x \notin followers[x]
    /\ SelfFollow =>
         /\ Len(ret) = 1
         /\ ret[1].kind = "FollowRejectedBlocked"
         /\ ret[1].follower_id = cur_cmd.follower_id
         /\ ret[1].followee_id = cur_cmd.followee_id
         /\ FollowState = FollowStateOf(pre)

\* A registered account asked to follow itself, and elsewhere an unregistered one.
C7_Witness ==
    /\ SelfFollow
    /\ Registered(pre, cur_cmd.follower_id)
    /\ \E y \in Ids : ~Registered(pre, y)

\* ---------------------------------------------------------------- C8
BlockCall ==
    /\ returned
    /\ cur_cmd.kind = "BlockAccount"
    /\ cur_cmd.blocker_id # cur_cmd.blocked_id
    /\ Registered(pre, cur_cmd.blocker_id)
    /\ Registered(pre, cur_cmd.blocked_id)

\* C8: for registered b # a, handle(BlockAccount(b, a)) returns exactly
\* <<AccountBlocked(b, a)>> and leaves a in b's blocked set; made again at
\* once it returns the same, and b's blocked set (the accounts), the follow
\* repository and the read model are as the first call left them.
C8_BlockIdempotent ==
    /\ BlockCall =>
         /\ ret = <<AccountBlocked(cur_cmd.blocker_id, cur_cmd.blocked_id)>>
         /\ cur_cmd.blocked_id \in BlockedBy(Repos, cur_cmd.blocker_id)
    /\ (BlockCall /\ repeat_of.same) =>
         /\ repeat_of.ret = <<AccountBlocked(cur_cmd.blocker_id, cur_cmd.blocked_id)>>
         /\ cur_cmd.blocked_id \in BlockedBy(pre, cur_cmd.blocker_id)
         /\ by_id = pre.by_id
         /\ FollowState = FollowStateOf(pre)
         /\ ReadModel = ReadModelOf(pre)

C8_Witness ==
    /\ BlockCall
    /\ repeat_of.same
    /\ Len(published) = 1

\* ---------------------------------------------------------------- C9
RemoveOfMissingEdge ==
    /\ returned
    /\ cur_cmd.kind = "RemoveFollower"
    /\ ~exists(pre, cur_cmd.follower_id, cur_cmd.followee_id)

\* C9: handle(RemoveFollower(f, g)) without the edge f -> g, for registered or
\* unregistered ids, returns (normally) no events, publishes nothing and
\* leaves accounts, follow edges and the read model unchanged.
C9_RemoveMissingIsNoOp ==
    RemoveOfMissingEdge =>
        /\ ret = <<>>
        /\ published = <<>>
        /\ Snapshot = pre

\* The follower is registered, the followee is not.
C9_Witness ==
    /\ RemoveOfMissingEdge
    /\ Registered(pre, cur_cmd.follower_id)
    /\ ~Registered(pre, cur_cmd.followee_id)

\* ---------------------------------------------------------------- C10
\* C10: handle(command) returns exactly the events of the command's own
\* handler, in order; these are what the call itself publishes, and the events
\* of policy-triggered commands are published but not returned. So
\* handle(BlockAccount(b, a)) with the edge a -> b returns
\* <<AccountBlocked(b, a)>> without the FollowerRemoved it caused.
C10_ReturnsOwnEvents ==
    /\ returned =>
         /\ ret = RunHandler(pre, cur_cmd).events
         /\ ret = OwnPublished
         /\ Len(ret) + Cardinality({k \in 1..Len(published) : published[k].depth > 1})
              = Len(published)
    /\ BlockOfFollower =>
         /\ ret = <<AccountBlocked(cur_cmd.blocker_id, cur_cmd.blocked_id)>>
         /\ \E k \in 1..Len(published) :
              /\ published[k].event.kind = "FollowerRemoved"
              /\ published[k].depth = 2
         /\ \A n \in 1..Len(ret) : ret[n].kind # "FollowerRemoved"

C10_Witness ==
    /\ BlockOfFollower
    /\ Len(ret) = 1
    /\ \E k \in 1..Len(published) : published[k].depth = 2

\* ---------------------------------------------------------------- C11
\* A top-level handle(BlockAccount(b, a)), begun while a follows b, is in
\* progress or has ended.
BlockOfFollowerCall ==
    /\ cur_cmd.kind = "BlockAccount"
    /\ cur_cmd.blocker_id # cur_cmd.blocked_id
    /\ Registered(pre, cur_cmd.blocker_id)
    /\ Registered(pre, cur_cmd.blocked_id)
    /\ exists(pre, cur_cmd.blocked_id, cur_cmd.blocker_id)

PublishedEvents == [k \in 1..Len(published) |-> published[k].event]
PublishedDepths == [k \in 1..Len(published) |-> published[k].depth]

\* The cascaded handle(RemoveFollower) is running: its handler has removed
\* the edge, and FollowerRemoved is published and projected or about to be.
InCascade == Len(stack) = 2

\* C11: the policy's handle(RemoveFollower) runs inside the dispatch of
\* AccountBlocked and is never queued.  Every state of handle(BlockAccount(b, a))
\* with the edge a -> b is one of: (1) blocked set persisted, nothing published;
\* (2, 3) AccountBlocked published and the cascaded handler has removed the
\* edge, the read model still holding it; (4) FollowerRemoved published and
\* projected, the inner call still active; (5) the inner call has returned, the
\* outer has not; (6) the outer call has returned.
C11_CascadeIsSynchronous ==
    BlockOfFollowerCall =>
        LET b == cur_cmd.blocker_id
            a == cur_cmd.blocked_id
            AB == AccountBlocked(b, a)
            FR == FollowerRemoved(a, b, "Blocked")
            outer1 == [cmd |-> cur_cmd, events |-> <<AB>>, i |-> 1, j |-> 1]
            outer2 == [cmd |-> cur_cmd, events |-> <<AB>>, i |-> 2, j |-> 1]
            inner1 == [cmd |-> RemoveFollower(a, b), events |-> <<FR>>, i |-> 1, j |-> 1]
            inner2 == [cmd |-> RemoveFollower(a, b), events |-> <<FR>>, i |-> 2, j |-> 1]
        IN  /\ a \in BlockedBy(Repos, b)
            /\ \/ /\ stack = <<outer1>>
                  /\ published = <<>>
                  /\ exists(Repos, a, b)
                  /\ b \in read_following[a]
                  /\ ~returned
               \/ /\ stack = <<outer2, inner1>>
                  /\ PublishedEvents = <<AB>>
                  /\ PublishedDepths = <<1>>
                  /\ ~exists(Repos, a, b)
                  /\ b \in read_following[a]
                  /\ ~returned
               \/ /\ stack = <<outer2, inner2>>
                  /\ PublishedEvents = <<AB, FR>>
                  /\ PublishedDepths = <<1, 2>>
                  /\ ~exists(Repos, a, b)
                  /\ b \notin read_following[a]
                  /\ ~returned
               \/ /\ stack = <<outer2>>
                  /\ PublishedEvents = <<AB, FR>>
                  /\ PublishedDepths = <<1, 2>>
                  /\ ~exists(Repos, a, b)
                  /\ b \notin read_following[a]
                  /\ ~returned
               \/ /\ stack = <<>>
                  /\ PublishedEvents = <<AB, FR>>
                  /\ PublishedDepths = <<1, 2>>
                  /\ ~exists(Repos, a, b)
                  /\ b \notin read_following[a]
                  /\ returned
                  /\ ret = <<AB>>

\* The inner call is still active after FollowerRemoved was projected.
C11_Witness ==
    /\ BlockOfFollowerCall
    /\ InCascade
    /\ Top.i = 2
    /\ Len(published) = 2

\* ---------------------------------------------------------------- C12
RegisteredKinds == {"RegisterAccount", "FollowAccount", "BlockAccount", "RemoveFollower"}

\* C12: handle(command) for a command kind without a registered handler fails
\* with an error, runs no handler (no call frame, no state change), publishes
\* no event and leaves accounts, follow edges and the read model unchanged; for
\* RegisterAccount, FollowAccount, BlockAccount and RemoveFollower handle
\* never raises it.
C12_UnhandledCommandFails ==
    /\ cur_cmd \in UnhandledCommands =>
         /\ raised
         /\ ~returned
         /\ stack = <<>>
         /\ ret = <<>>
         /\ published = <<>>
         /\ invoked = <<>>
         /\ Snapshot = pre
    /\ cur_cmd.kind \in RegisteredKinds => ~raised

\* The unhandled command came when accounts and an edge existed.
C12_Witness ==
    /\ raised
    /\ cur_cmd \in UnhandledCommands
    /\ DOMAIN by_id = Ids
    /\ \E x \in Ids : following[x] # {}

\* ---------------------------------------------------------------- C13
FailedInvocations == {k \in 1..Len(invoked) : invoked[k].failed}

\* A handle call of a registered kind ended with an exception.
SubscriberFailed == raised /\ cur_cmd.kind \in RegisteredKinds

\* C13: publish does not swallow a subscriber's failure.  Once a subscriber
\* has failed, no subscriber is invoked after it (not the later subscribers of
\* that event, nor any other), no event is published after it (every published
\* event had a subscriber invoked up to the failure), every active publish and
\* handle call has been left, and the caller of handle has the
\* failure and no returned event list.
C13_FailurePropagates ==
    /\ \A k \in FailedInvocations :
         /\ k = Len(invoked)
         /\ stack = <<>>
         /\ raised
         /\ ~returned
         /\ ret = <<>>
         /\ \A n \in 1..Len(published) :
              \E h \in 1..k : /\ invoked[h].event = published[n].event
                              /\ invoked[h].depth = published[n].depth
    /\ SubscriberFailed => FailedInvocations # {}

\* The subscriber that failed had a later subscriber of the same event, and
\* the publishing handle call was the cascaded one or had a caller's events.
C13_Witness ==
    /\ SubscriberFailed
    /\ \E k \in FailedInvocations :
         invoked[k].j < Len(all_subscribers(invoked[k].event.kind))

\* ---------------------------------------------------------------- C14
\* C14: no rollback.  When a subscriber fails during the dispatch of a
\* handler's event, what the handler persisted stays: the accounts are those
\* the handler saved (a is in b's blocked set after BlockAccount(b, a)), the
\* follow repository is the one the handler left (the edge a follow added is
\* there; after a block, the cascade's removal too), though handle failed.
C14_NoRollback ==
    SubscriberFailed =>
        LET r == RunHandler(pre, cur_cmd).repos
        IN  /\ by_id = r.by_id
            /\ by_email = r.by_email
            /\ by_username = r.by_username
            /\ cur_cmd.kind = "BlockAccount" =>
                 /\ cur_cmd.blocked_id \in BlockedBy(Repos, cur_cmd.blocker_id)
                 /\ FollowState =
                      FollowStateOf(remove(r, cur_cmd.blocked_id, cur_cmd.blocker_id))
            /\ cur_cmd.kind # "BlockAccount" => FollowState = FollowStateOf(r)
            /\ (/\ cur_cmd.kind = "FollowAccount"
                /\ published[1].event.kind = "AccountFollowed") =>
                 exists(Repos, cur_cmd.follower_id, cur_cmd.followee_id)

\* A first block of a by b failed in the cascade, after the edge a -> b went.
C14_Witness ==
    /\ SubscriberFailed
    /\ cur_cmd.kind = "BlockAccount"
    /\ cur_cmd.blocked_id \notin BlockedBy(pre, cur_cmd.blocker_id)
    /\ cur_cmd.blocked_id \in BlockedBy(Repos, cur_cmd.blocker_id)
    /\ exists(pre, cur_cmd.blocked_id, cur_cmd.blocker_id)
    /\ invoked[Len(invoked)].depth = 2

\* ---------------------------------------------------------------- C15
\* The subscribers of a kind in subscription order: _register_policies, then
\* the projector subscriptions of __init__, then the client's.
ExpectedSubscribers(kind) ==
    (IF kind = "AccountBlocked" THEN <<"on_account_blocked">>
     ELSE IF kind \in {"AccountRegistered", "AccountFollowed", "FollowerRemoved"}
     THEN <<"_project">>
     ELSE <<>>)
    \o [n \in 1..client_subs[kind] |-> "client_fn"]

\* The invocations made for publication n, in the order made.
InvocationsOf(n) ==
    LET ix == {k \in 1..Len(invoked) : /\ invoked[k].event = published[n].event
                                       /\ invoked[k].depth = published[n].depth}
    IN  [m \in 1..Cardinality(ix) |->
            invoked[CHOOSE k \in ix : Cardinality({h \in ix : h <= k}) = m]]

\* C15: publish(event) invokes the handlers subscribed to the event's kind,
\* once each and in subscription order, and no handler subscribed to another
\* kind: the invocations made for a publication are a prefix of the kind's
\* subscriber list, the whole list once handle has returned; every invocation
\* belongs to a publication; and a call whose one event has no subscribers
\* (AccountAlreadyExists, FollowRejectedBlocked in the Application) invokes
\* nothing and leaves the state as it was.
C15_PublishInvokesSubscribersInOrder ==
    /\ \A n \in 1..Len(published) :
         LET subs == ExpectedSubscribers(published[n].event.kind)
             inv == InvocationsOf(n)
         IN  /\ Len(inv) <= Len(subs)
             /\ \A m \in 1..Len(inv) : inv[m].sub = subs[m] /\ inv[m].j = m
             /\ returned => Len(inv) = Len(subs)
    /\ \A k \in 1..Len(invoked) :
         \E n \in 1..Len(published) :
             /\ published[n].event = invoked[k].event
             /\ published[n].depth = invoked[k].depth
    /\ (/\ returned
        /\ Len(published) = 1
        /\ ExpectedSubscribers(published[1].event.kind) = <<>>) =>
           /\ invoked = <<>>
           /\ Snapshot = pre

\* A returned call published an event with three subscribers, and the client
\* was also subscribed to a kind that was not published.
C15_Witness ==
    /\ returned
    /\ \E n \in 1..Len(published) :
         Len(ExpectedSubscribers(published[n].event.kind)) = 3
    /\ Len(invoked) = 3

\* ---------------------------------------------------------------- C16
\* A top-level handle(FollowAccount(f, g)) has returned.
FollowCall == returned /\ cur_cmd.kind = "FollowAccount"

Rejected == ret # <<>> /\ ret[1].kind = "FollowRejectedBlocked"

BlockBetween(s, x, y) == y \in BlockedBy(s, x) \/ x \in BlockedBy(s, y)

\* C16: FollowAccount(f, g) checks in the order self-follow, unknown account,
\* blocked relationship, existing edge, edge creation: what it returns is
\* decided by the first of these that applies to the state it was called in.
\* So with f # g registered and a block either way it returns exactly one
\* FollowRejectedBlocked also when the edge f -> g exists, and a rejection
\* leaves accounts, follow edges and the read model as they were.
C16_FollowPrecedence ==
    FollowCall =>
        LET f == cur_cmd.follower_id
            g == cur_cmd.followee_id
        IN  /\ ret =
                 IF f = g
                 THEN <<FollowRejectedBlocked(f, g, "Cannot follow self")>>
                 ELSE IF ~Registered(pre, f) \/ ~Registered(pre, g)
                 THEN <<FollowRejectedBlocked(f, g, "Unknown accounts")>>
                 ELSE IF BlockBetween(pre, f, g)
                 THEN <<FollowRejectedBlocked(f, g, "Blocked relationship")>>
                 ELSE IF exists(pre, f, g)
                 THEN <<>>
                 ELSE <<AccountFollowed(f, g)>>
            /\ (f # g /\ Registered(pre, f) /\ Registered(pre, g)
                /\ BlockBetween(pre, f, g)) =>
                   /\ Len(ret) = 1
                   /\ ret[1].kind = "FollowRejectedBlocked"
            /\ Rejected => Snapshot = pre
            /\ ret = <<>> => Snapshot = pre
            /\ ret = <<AccountFollowed(f, g)>> =>
                   /\ ~exists(pre, f, g)
                   /\ FollowState = FollowStateOf(add(pre, f, g))

\* A follow of an edge that exists, across a block, was rejected.
C16_Witness ==
    /\ FollowCall
    /\ cur_cmd.follower_id # cur_cmd.followee_id
    /\ BlockBetween(pre, cur_cmd.follower_id, cur_cmd.followee_id)
    /\ exists(pre, cur_cmd.follower_id, cur_cmd.followee_id)
    /\ Rejected

\* ---------------------------------------------------------------- C17
\* C17: blocking is permanent and symmetric for follows.  Once a top-level
\* handle(BlockAccount(b, a)) has returned AccountBlocked, in every later
\* state the block is still recorded, every handle(FollowAccount) between a
\* and b, in either direction, returns FollowRejectedBlocked, and no call
\* creates an edge between a and b.
C17_BlockIsPermanentAndSymmetric ==
    \A x \in Ids, y \in Ids :
        {x, y} \in ever_blocked =>
            /\ x # y
            /\ BlockBetween(Repos, x, y)
            /\ (FollowCall /\ cur_cmd = FollowAccount(x, y)) =>
                 /\ ret = <<FollowRejectedBlocked(x, y, "Blocked relationship")>>
                 /\ Snapshot = pre
            /\ cur_cmd.kind \in RegisteredKinds =>
                 (exists(Repos, x, y) => exists(pre, x, y))

\* After a block of a by b, and a call in between, b's follow of a was
\* rejected, and so was a's follow of b.
C17_Witness ==
    /\ FollowCall
    /\ {cur_cmd.follower_id, cur_cmd.followee_id} \in ever_blocked
    /\ cur_cmd.followee_id \in BlockedBy(pre, cur_cmd.follower_id)
    /\ cur_cmd.follower_id \notin BlockedBy(pre, cur_cmd.followee_id)
    /\ Rejected

C17_WitnessBlockedFollows ==
    /\ FollowCall
    /\ {cur_cmd.follower_id, cur_cmd.followee_id} \in ever_blocked
    /\ cur_cmd.follower_id \in BlockedBy(pre, cur_cmd.followee_id)
    /\ cur_cmd.followee_id \notin BlockedBy(pre, cur_cmd.follower_id)
    /\ Rejected

\* ---------------------------------------------------------------- C18
\* A handle call of a registered kind is running or has ended.
CallMade == cur_cmd.kind \in RegisteredKinds

\* C18: from the state a handle call began in to every state of the call, no
\* account is removed, no id leaves a blocked set, no account's id, email or
\* username changes, and a blocked set gains an id only in
\* handle(BlockAccount(b, a)) with b # a both registered, b's set gaining a;
\* BlockAccount with b = a or an unregistered endpoint returns no events and
\* changes nothing.
C18_AccountsAndBlocksOnlyGrow ==
    CallMade =>
        /\ \A x \in DOMAIN pre.by_id :
             /\ x \in DOMAIN by_id
             /\ by_id[x].id = pre.by_id[x].id
             /\ by_id[x].email = pre.by_id[x].email
             /\ by_id[x].username = pre.by_id[x].username
             /\ pre.by_id[x].blocked \subseteq by_id[x].blocked
        /\ \A x \in DOMAIN by_id :
             \A a \in by_id[x].blocked \ BlockedBy(pre, x) :
                 /\ cur_cmd = BlockAccount(x, a)
                 /\ x # a
                 /\ Registered(pre, x)
                 /\ Registered(pre, a)
        /\ (/\ returned
            /\ cur_cmd.kind = "BlockAccount"
            /\ \/ cur_cmd.blocker_id = cur_cmd.blocked_id
               \/ ~Registered(pre, cur_cmd.blocker_id)
               \/ ~Registered(pre, cur_cmd.blocked_id)) =>
               /\ ret = <<>>
               /\ Snapshot = pre

\* A registered account that has blocked someone blocked itself: nothing
\* came of it.
C18_Witness ==
    /\ returned
    /\ cur_cmd.kind = "BlockAccount"
    /\ cur_cmd.blocker_id = cur_cmd.blocked_id
    /\ BlockedBy(pre, cur_cmd.blocker_id) # {}
    /\ BlockedBy(Repos, cur_cmd.blocker_id) = BlockedBy(pre, cur_cmd.blocker_id)

\* ---------------------------------------------------------------- C19
WasPublished(ev) == \E k \in 1..Len(published) : published[k].event = ev

\* C19: whenever a top-level handle call has returned, the read model equals
\* the Follow Repository (y in read_following[x] iff x in read_followers[y] iff
\* exists(x, y)), and during the call AccountFollowed(x, y) was published
\* exactly when the edge x -> y went from absent to present, FollowerRemoved
\* exactly when it went from present to absent.
C19_ReadModelEqualsFollowRepo ==
    returned =>
        \A x \in Ids, y \in Ids :
            /\ (y \in read_following[x]) <=> (x \in read_followers[y])
            /\ (x \in read_followers[y]) <=> exists(Repos, x, y)
            /\ WasPublished(AccountFollowed(x, y)) <=>
                 (~exists(pre, x, y) /\ exists(Repos, x, y))
            /\ WasPublished(FollowerRemoved(x, y, "Blocked")) <=>
                 (exists(pre, x, y) /\ ~exists(Repos, x, y))

\* A call removed one edge and another one is left, in both stores.
C19_Witness ==
    /\ returned
    /\ \E x \in Ids, y \in Ids :
         /\ WasPublished(FollowerRemoved(x, y, "Blocked"))
         /\ exists(Repos, y, x)
         /\ x \in read_following[y]
         /\ y \in read_followers[x]

\* ---------------------------------------------------------------- C20
PolicyInvocations == {k \in 1..Len(invoked) : invoked[k].sub = "on_account_blocked"}

\* The cascade is bounded: at most two handle calls are active, the inner one
\* is the RemoveFollower the policy submitted for the outer call's
\* AccountBlocked, the policy runs at most once in a top-level call and only
\* for AccountBlocked at depth 1, and what is published at depth 2 is
\* FollowerRemoved.
CascadeBounded ==
    /\ Len(stack) <= 2
    /\ Len(stack) = 2 =>
         /\ stack[1].cmd.kind = "BlockAccount"
         /\ stack[1].events = <<AccountBlocked(stack[1].cmd.blocker_id,
                                               stack[1].cmd.blocked_id)>>
         /\ stack[2].cmd = RemoveFollower(stack[1].cmd.blocked_id,
                                          stack[1].cmd.blocker_id)
         /\ \A k \in 1..Len(stack[2].events) :
              stack[2].events[k].kind = "FollowerRemoved"
    /\ Cardinality(PolicyInvocations) <= 1
    /\ \A k \in PolicyInvocations :
         /\ invoked[k].event.kind = "AccountBlocked"
         /\ invoked[k].depth = 1
    /\ \A n \in 1..Len(published) :
         /\ published[n].depth <= 2
         /\ published[n].depth = 2 =>
              /\ published[n].cmd.kind = "RemoveFollower"
              /\ published[n].event.kind = "FollowerRemoved"

\* C20: every handle call terminates and the policy cascade is bounded.  A
\* call in progress leads to the top-level call having returned, and always:
\* only AccountBlocked triggers a further command, that command is
\* RemoveFollower, FollowerRemoved triggers none, the depth of handle is at
\* most 2 and a top-level command causes at most one cascaded command.
C20_TerminatesWithBoundedCascade ==
    /\ []CascadeBounded
    /\ (stack # <<>>) ~> (stack = <<>> /\ returned)

\* A block with its cascade has returned.
C20_Witness ==
    /\ returned
    /\ stack = <<>>
    /\ cur_cmd.kind = "BlockAccount"
    /\ \E n \in 1..Len(published) : published[n].depth = 2
    /\ Cardinality(PolicyInvocations) = 1

====
